---- MODULE Spec2Model ----
(***************************************************************************)
(* A model of the notebook Lecture09_PyTorch.ipynb.                        *)
(*                                                                         *)
(* The notebook is eleven code cells run by one kernel that keeps a single *)
(* global namespace.  Five specifications cover it:                        *)
(*   Spec         the kernel: cells executed in any order, each one        *)
(*                statement by statement against the shared namespace;     *)
(*   TrainSpec    the training loop of cell 7, step by step;               *)
(*   AutogradSpec the gradient-tracked expression of cell 5;               *)
(*   DataSpec     the CustomDataset class of cell 8;                       *)
(*   IOSpec       device selection (cell 4), save/load (cell 9) and the    *)
(*                evaluation forward pass (cell 10) with their failures.   *)
(* Every specification leaves the variables of the others at rest.         *)
(***************************************************************************)
EXTENDS Integers, Sequences, FiniteSets, TLC

VARIABLES
  \* ---- the kernel (Spec)
  bound,      \* global namespace: name -> the cell that bound it, 0 = unbound
  done,       \* cells that have run to completion at least once
  last,       \* the last cell execution: cell, error, reads, state before

  \* ---- the training loop (TrainSpec)
  pc,         \* position in the loop
  it,         \* iterations started; epoch = it - 1
  theta,      \* the model's parameter (fixed point, Scale = 1.0)
  X,          \* the training input / the dataset's inputs
  y,          \* the training target / the dataset's targets
  outputs,    \* outputs = model(X)
  loss,       \* loss = criterion(outputs, y)
  pgrad,      \* the parameter's .grad: None or a number
  reports,    \* the printed reports, in order
  hist,       \* bookkeeping of what ran and of the values at the start

  \* ---- the autograd cell (AutogradSpec); y is shared
  x,          \* the tensor x: its data and its .grad
  z,          \* the tensor z: its data and the graph that produced it

  \* ---- the dataset cell (DataSpec); X and y are shared
  dataset,    \* the CustomDataset object
  dataloader, \* the DataLoader object
  item,       \* the result of the last len(dataset) or dataset[idx]

  \* ---- device selection, save/load, evaluation (IOSpec); X is shared
  model,       \* the model's parameters, by state_dict key
  device,      \* the selected device
  fs,          \* the content of the file 'model.pth'
  loaded_model,\* the parameters of loaded_model
  training,    \* the model's training flag
  test_output, \* the shape of test_output
  out          \* how the last cell ended

kernelVars == <<bound, done, last>>
trainVars == <<pc, it, theta, X, y, outputs, loss, pgrad, reports, hist>>
autoVars == <<x, z>>
dsVars == <<dataset, dataloader, item>>
ioVars == <<model, device, fs, loaded_model, training, test_output, out>>
vars == <<bound, done, last, pc, it, theta, X, y, outputs, loss, pgrad, reports,
          hist, x, z, dataset, dataloader, item, model, device, fs,
          loaded_model, training, test_output, out>>

\* An optional value: None, or Some(v).
None == <<>>
Some(v) == <<v>>
Val(o) == o[1]

(***************************************************************************)
(* The kernel: cells, statements, names.                                   *)
(***************************************************************************)

\* The code cells, numbered by their place in the notebook (execution_count).
Cells == 1..11

\* Names the cells bind with import statements.
LibraryNames == {"torch", "np", "nn", "optim", "Dataset", "DataLoader"}

\* Every global name a cell binds or reads.  Builtins (print, range, len,
\* super) live in the builtins namespace and are never unbound.
Names == LibraryNames \cup
  {"x", "array", "tensor_from_array", "zeros", "ones", "random", "a", "b", "c",
   "device", "y", "z", "SimpleNN", "model", "X", "criterion", "optimizer",
   "epoch", "outputs", "loss", "CustomDataset", "dataset", "dataloader",
   "loaded_model", "test_output", "conv", "pool", "dropout", "batch_norm",
   "relu", "sigmoid"}

\* One statement: the global names it reads, in evaluation order, then the
\* names it binds.
St(r, b) == [reads |-> r, binds |-> b]

\* Constructing a SimpleNN runs __init__, which reads the globals SimpleNN
\* (super(SimpleNN, self)) and nn (nn.Linear, nn.Linear, nn.ReLU).
NewSimpleNN == <<"SimpleNN", "SimpleNN", "nn", "nn", "nn">>

\* The statements of each code cell, by the cell's place in the notebook.
CellTable(c) ==
  CASE c = 1 -> << St(<<>>, {"torch"}),
                   St(<<>>, {"np"}),
                   St(<<"torch">>, {"x"}),
                   St(<<"x">>, {}), St(<<"x">>, {}), St(<<"x">>, {}) >>
    [] c = 2 -> << St(<<"np">>, {"array"}),
                   St(<<"torch", "array">>, {"tensor_from_array"}),
                   St(<<"torch">>, {"zeros"}),
                   St(<<"torch">>, {"ones"}),
                   St(<<"torch">>, {"random"}),
                   St(<<"tensor_from_array">>, {}), St(<<"zeros">>, {}),
                   St(<<"ones">>, {}), St(<<"random">>, {}) >>
    [] c = 3 -> << St(<<"torch">>, {"a"}),
                   St(<<"torch">>, {"b"}),
                   St(<<"a", "b">>, {}), St(<<"a", "b">>, {}),
                   St(<<"torch", "a", "b">>, {}),
                   St(<<"torch">>, {"c"}),
                   St(<<"c">>, {}), St(<<"c">>, {}) >>
    [] c = 4 -> << St(<<"torch">>, {}),
                   St(<<"torch">>, {"device"}),
                   St(<<"device">>, {}),
                   St(<<"torch">>, {"x"}),
                   St(<<"x", "device">>, {"x"}) >>
    [] c = 5 -> << St(<<"torch">>, {"x"}),
                   St(<<"torch">>, {"y"}),
                   St(<<"x", "y">>, {"z"}),
                   St(<<"z">>, {}),
                   St(<<"x">>, {}), St(<<"y">>, {}) >>
    [] c = 6 -> << St(<<>>, {"nn"}),
                   St(<<"nn">>, {"SimpleNN"}),
                   St(NewSimpleNN, {"model"}),
                   St(<<"model">>, {}) >>
    [] c = 7 -> << St(<<>>, {"optim"}),
                   St(<<"torch">>, {"X"}),
                   St(<<"torch", "X">>, {"y"}),
                   St(NewSimpleNN, {"model"}),
                   St(<<"nn">>, {"criterion"}),
                   St(<<"optim", "model">>, {"optimizer"}),
                   St(<<>>, {"epoch"}),
                   St(<<"model", "X">>, {"outputs"}),
                   St(<<"criterion", "outputs", "y">>, {"loss"}),
                   St(<<"optimizer">>, {}),
                   St(<<"loss">>, {}),
                   St(<<"optimizer">>, {}),
                   St(<<"epoch">>, {}),
                   St(<<"epoch", "loss">>, {}) >>
    [] c = 8 -> << St(<<>>, {"Dataset", "DataLoader"}),
                   St(<<"Dataset">>, {"CustomDataset"}),
                   St(<<"CustomDataset", "X", "y">>, {"dataset"}),
                   St(<<"DataLoader", "dataset">>, {"dataloader"}) >>
    [] c = 9 -> << St(<<"torch", "model">>, {}),
                   St(NewSimpleNN, {"loaded_model"}),
                   St(<<"loaded_model", "torch">>, {}) >>
    [] c = 10 -> << St(<<"model">>, {}),
                    St(<<"model">>, {}),
                    St(<<"torch">>, {}),
                    St(<<"model", "X">>, {"test_output"}) >>
    [] c = 11 -> << St(<<"nn">>, {"conv"}),
                    St(<<"nn">>, {"pool"}),
                    St(<<"nn">>, {"dropout"}),
                    St(<<"nn">>, {"batch_norm"}),
                    St(<<"nn">>, {"relu"}),
                    St(<<"nn">>, {"sigmoid"}) >>

\* The notebook with the training cell placed before the cell that defines
\* the network.
CellStmtsTrainingFirst(c) ==
  CellTable(IF c = 6 THEN 7 ELSE IF c = 7 THEN 6 ELSE c)

\* The notebook with the data-loading cell placed before the training cell
\* that generates the data.
CellStmtsLoaderFirst(c) ==
  CellTable(IF c = 7 THEN 8 ELSE IF c = 8 THEN 7 ELSE c)

\* The statements cell c runs.
CellStmts(c) == CellTable(c)

Range(s) == {s[i] : i \in DOMAIN s}

\* The reads of one statement against namespace env: the names are looked up
\* in order, and the first unbound one raises NameError.
RECURSIVE Lookup(_, _, _)
Lookup(names, env, rd) ==
  IF names = <<>> THEN [reads |-> rd, err |-> "none"]
  ELSE IF env[Head(names)] = 0 THEN [reads |-> rd, err |-> Head(names)]
  ELSE Lookup(Tail(names), env, rd \cup {<<Head(names), env[Head(names)]>>})

\* Cell c's statements run in order against env; a NameError ends the cell
\* and keeps what the earlier statements bound.
RECURSIVE Exec(_, _, _, _)
Exec(c, stmts, env, rd) ==
  IF stmts = <<>> THEN [env |-> env, reads |-> rd, err |-> "none"]
  ELSE LET s == Head(stmts)
           lk == Lookup(s.reads, env, rd)
       IN IF lk.err # "none"
          THEN [env |-> env, reads |-> lk.reads, err |-> lk.err]
          ELSE Exec(c, Tail(stmts),
                    [n \in s.binds |-> c] @@ env,
                    lk.reads)

NoRun == [cell |-> 0, err |-> "none", reads |-> {}, preOrder |-> FALSE, preLib |-> FALSE]

KernelIdle == bound = [n \in Names |-> 0] /\ done = {} /\ last = NoRun

\* The variables of the other specifications, at rest.
AutoIdle == x = None /\ z = None
DatasetIdle == dataset = None /\ dataloader = None /\ item = None
IOIdle ==
  /\ model = None /\ device = None /\ fs = None /\ loaded_model = None
  /\ training = TRUE /\ test_output = None /\ out = None
LoopIdle ==
  /\ pc = "idle" /\ it = 0 /\ theta = 0 /\ outputs = None
  /\ loss = None /\ pgrad = None /\ reports = <<>>

\* Every import statement of the notebook has run.
ImportsDone == \A n \in LibraryNames : bound[n] # 0

\* The user executes cell c.
RunCell(c) ==
  LET r == Exec(c, CellStmts(c), bound, {})
  IN /\ bound' = r.env
     /\ done' = IF r.err = "none" THEN done \cup {c} ELSE done
     /\ last' = [cell |-> c, err |-> r.err, reads |-> r.reads,
                 preOrder |-> (1..(c - 1)) \subseteq done, preLib |-> ImportsDone]
     /\ UNCHANGED <<trainVars, autoVars, dsVars, ioVars>>

(***************************************************************************)
(* Claims about the cells and the namespace, checked under Spec.           *)
(***************************************************************************)

\* C3 as stated: whatever cell has run, each name it read is a library name
\* or was bound by that same cell.
C3_NoSharedState ==
  \A r \in last.reads : r[1] \in LibraryNames \/ r[2] = last.cell

\* C3, amended: each name a cell reads was bound by that cell or by a cell
\* before it in the notebook, never by a later one.
C3_ReadsFromEarlierCells ==
  \A r \in last.reads : r[2] <= last.cell

\* C3's case: the data-loading cell ran to its end reading X and y bound by
\* the training cell.
C3_Witness ==
  /\ last.cell = 8 /\ last.err = "none"
  /\ <<"X", 7>> \in last.reads /\ <<"y", 7>> \in last.reads

\* C4 as stated: a cell executed once every import has run reads no unbound
\* name.
C4_AnyOrderAfterImports ==
  (last.cell # 0 /\ last.preLib) => last.err = "none"

\* C4, amended: a cell executed once every cell before it in the notebook has
\* run to its end reads no unbound name.
C4_NotebookOrder ==
  (last.cell # 0 /\ last.preOrder) => last.err = "none"

\* C4's case: the save/load cell ran to its end after the eight cells before
\* it had run to theirs.
C4_Witness ==
  /\ last.cell = 9 /\ last.preOrder /\ last.err = "none"
  /\ done = 1..9

(***************************************************************************)
(* The training cell (cell 7).  The network is abstracted to one weight    *)
(* theta shared by every input feature, out_i = theta * sum_j X[i][j], the *)
(* family the target y_i = 0.1 * sum_j X[i][j] lies in.  Reals are fixed   *)
(* point: Scale stands for 1.0.                                            *)
(***************************************************************************)

NumEpochs == 100
PrintEvery == 20
InFeatures == 10
\* lr = 0.01 = 1 / LrDen
LrDen == 100
\* y = sum * 0.1 = sum / TargetDen
TargetDen == 10
Scale == 10 * 100
\* The loss is a product of two fixed-point numbers: 1.0 is Scale * Scale.
\* The format .4f keeps four decimals.
FourDecimals == 10 * 1000

\* Bounds of the model.
MaxSamples == 2
MaxX == 1

RECURSIVE SumSeq(_)
SumSeq(s) == IF s = <<>> THEN 0 ELSE Head(s) + SumSeq(Tail(s))

\* A row of X: InFeatures features; the first carries the sample's value.
RowOf(v) == [j \in 1..InFeatures |-> IF j = 1 THEN v ELSE 0]

\* X = torch.randn(n, 10): n rows drawn from a small set.
Inputs(n) == {[i \in 1..n |-> RowOf(f[i])] : f \in [1..n -> -MaxX..MaxX]}

\* y = torch.sum(X, dim=1, keepdim=True) * 0.1
TargetOf(Xs) == [i \in DOMAIN Xs |-> (SumSeq(Xs[i]) * Scale) \div TargetDen]

\* SimpleNN(): the weight starts at a random value on either side of zero.
InitialWeights == {-(Scale \div 2), Scale \div 2}

\* model(X)
Forward(w, Xs) == [i \in DOMAIN Xs |-> w * SumSeq(Xs[i])]

\* nn.MSELoss(): the mean of the squared errors.
Criterion(outs, tgt) ==
  SumSeq([i \in DOMAIN outs |-> (outs[i] - tgt[i]) * (outs[i] - tgt[i])]) \div Len(outs)

\* The gradient of Criterion(Forward(w, Xs), tgt) with respect to w, as
\* reverse accumulation through the recorded graph computes it.
LossGrad(outs, tgt, Xs) ==
  SumSeq([i \in DOMAIN outs |-> 2 * (outs[i] - tgt[i]) * SumSeq(Xs[i])]) \div Len(outs)

\* f'{loss.item():.4f}': the loss rounded to four decimals.
Format4(l) ==
  LET digit == (Scale * Scale) \div FourDecimals
  IN (l + digit \div 2) \div digit

TrainHist == [trace |-> <<>>, steps |-> 0, thetas |-> <<>>, applied |-> None]

\* State after lines 336-342: data drawn, model constructed, no gradient yet.
TrainInit ==
  /\ KernelIdle /\ AutoIdle /\ DatasetIdle /\ IOIdle
  /\ pc = "head" /\ it = 0
  /\ \E n \in 1..MaxSamples : X \in Inputs(n)
  /\ y = TargetOf(X)
  /\ theta \in InitialWeights
  /\ outputs = None /\ loss = None /\ pgrad = None /\ reports = <<>>
  /\ hist = TrainHist

Ran(step) == [hist EXCEPT !.trace = Append(@, step)]

\* LoopHead with a convergence criterion: the loop ends once the loss is zero.
LoopHeadStopsOnZeroLoss ==
  /\ pc = "head"
  /\ IF it < NumEpochs /\ loss # Some(0)
     THEN /\ it' = it + 1
          /\ pc' = "forward"
          /\ hist' = [hist EXCEPT !.trace = <<>>]
     ELSE /\ pc' = "done"
          /\ UNCHANGED <<it, hist>>
  /\ UNCHANGED <<theta, X, y, outputs, loss, pgrad, reports>>
  /\ UNCHANGED <<kernelVars, autoVars, dsVars, ioVars>>

\* for epoch in range(100): the next iteration, or the end of the loop.
LoopHead ==
  /\ pc = "head"
  /\ IF it < NumEpochs
     THEN /\ it' = it + 1
          /\ pc' = "forward"
          /\ hist' = [hist EXCEPT !.trace = <<>>]
     ELSE /\ pc' = "done"
          /\ UNCHANGED <<it, hist>>
  /\ UNCHANGED <<theta, X, y, outputs, loss, pgrad, reports>>
  /\ UNCHANGED <<kernelVars, autoVars, dsVars, ioVars>>

\* outputs = model(X)
ForwardPass ==
  /\ pc = "forward"
  /\ outputs' = Forward(theta, X)
  /\ hist' = [Ran("forward") EXCEPT !.thetas = Append(@, theta)]
  /\ pc' = "criterion"
  /\ UNCHANGED <<it, theta, X, y, loss, pgrad, reports>>
  /\ UNCHANGED <<kernelVars, autoVars, dsVars, ioVars>>

\* loss = criterion(outputs, y)
ComputeLoss ==
  /\ pc = "criterion"
  /\ loss' = Some(Criterion(outputs, y))
  /\ hist' = Ran("criterion")
  /\ pc' = "zero_grad"
  /\ UNCHANGED <<it, theta, X, y, outputs, pgrad, reports>>
  /\ UNCHANGED <<kernelVars, autoVars, dsVars, ioVars>>

\* ZeroGrad with the call left out: the gradient of the last iteration stays.
ZeroGradKeepsGradient ==
  /\ pc = "zero_grad"
  /\ hist' = Ran("zero_grad")
  /\ pc' = "backward"
  /\ UNCHANGED <<it, theta, X, y, outputs, loss, pgrad, reports>>
  /\ UNCHANGED <<kernelVars, autoVars, dsVars, ioVars>>

\* optimizer.zero_grad()
ZeroGrad ==
  /\ pc = "zero_grad"
  /\ pgrad' = None
  /\ hist' = Ran("zero_grad")
  /\ pc' = "backward"
  /\ UNCHANGED <<it, theta, X, y, outputs, loss, reports>>
  /\ UNCHANGED <<kernelVars, autoVars, dsVars, ioVars>>

\* Backward followed by a second optimizer.zero_grad(): the step sees no gradient.
BackwardThenZero ==
  /\ pc = "backward"
  /\ pgrad' = None
  /\ hist' = [hist EXCEPT !.trace = @ \o <<"backward", "zero_grad">>]
  /\ pc' = "step"
  /\ UNCHANGED <<it, theta, X, y, outputs, loss, reports>>
  /\ UNCHANGED <<kernelVars, autoVars, dsVars, ioVars>>

\* loss.backward(): the gradient is accumulated into .grad.
Backward ==
  /\ pc = "backward"
  /\ LET g == LossGrad(outputs, y, X)
     IN pgrad' = IF pgrad = None THEN Some(g) ELSE Some(Val(pgrad) + g)
  /\ hist' = Ran("backward")
  /\ pc' = "step"
  /\ UNCHANGED <<it, theta, X, y, outputs, loss, reports>>
  /\ UNCHANGED <<kernelVars, autoVars, dsVars, ioVars>>

\* optimizer.step(): SGD, p = p - lr * p.grad; a parameter without a
\* gradient is skipped.
OptStep ==
  /\ pc = "step"
  /\ theta' = IF pgrad = None THEN theta ELSE theta - (Val(pgrad) \div LrDen)
  /\ hist' = [Ran("step") EXCEPT !.steps = @ + 1, !.applied = pgrad]
  /\ pc' = "report"
  /\ UNCHANGED <<it, X, y, outputs, loss, pgrad, reports>>
  /\ UNCHANGED <<kernelVars, autoVars, dsVars, ioVars>>

\* Report with the test written epoch % 20 == 0.
ReportOnEpoch ==
  /\ pc = "report"
  /\ reports' = IF (it - 1) % PrintEvery = 0
                THEN Append(reports, [label |-> it, text |-> Format4(Val(loss))])
                ELSE reports
  /\ pc' = "head"
  /\ UNCHANGED <<it, theta, X, y, outputs, loss, pgrad, hist>>
  /\ UNCHANGED <<kernelVars, autoVars, dsVars, ioVars>>

\* if (epoch + 1) % 20 == 0: print(...), with epoch = it - 1.
Report ==
  /\ pc = "report"
  /\ reports' = IF it % PrintEvery = 0
                THEN Append(reports, [label |-> it, text |-> Format4(Val(loss))])
                ELSE reports
  /\ pc' = "head"
  /\ UNCHANGED <<it, theta, X, y, outputs, loss, pgrad, hist>>
  /\ UNCHANGED <<kernelVars, autoVars, dsVars, ioVars>>

TrainNext ==
  \/ LoopHead
  \/ ForwardPass
  \/ ComputeLoss
  \/ ZeroGrad
  \/ Backward
  \/ OptStep
  \/ Report

\* The kernel runs a started cell to its end: a step that can be taken is taken.
TrainSpec == TrainInit /\ [][TrainNext]_vars /\ WF_vars(TrainNext)

(***************************************************************************)
(* Claims about the training loop, checked under TrainSpec.                *)
(***************************************************************************)

StepOrder == <<"forward", "criterion", "zero_grad", "backward", "step">>

\* Iterations whose five steps are complete.
Completed == IF pc \in {"head", "done", "report"} THEN it ELSE it - 1

\* C1: in every iteration the steps run in the order forward, loss,
\* zero-gradients, back-propagation, optimizer step, each exactly once: what
\* has run of the current iteration is always a prefix of that order, the
\* whole of it once the iteration ends, and the optimizer has stepped once
\* per completed iteration; so a step always has the zero-gradients and the
\* back-propagation of its own iteration before it.
C1_StepOrder ==
  /\ Len(hist.trace) <= Len(StepOrder)
  /\ hist.trace = SubSeq(StepOrder, 1, Len(hist.trace))
  /\ (pc = "report" \/ (pc \in {"head", "done"} /\ it > 0)) => hist.trace = StepOrder
  /\ hist.steps = Completed
  /\ \A i \in DOMAIN hist.trace :
       hist.trace[i] = "step" =>
         \E j, k \in 1..(i - 1) :
           j < k /\ hist.trace[j] = "zero_grad" /\ hist.trace[k] = "backward"

\* C1's case: an iteration past the first has just taken its optimizer step.
C1_Witness == pc = "report" /\ it = 2 /\ hist.trace = StepOrder

\* C2: the loop ends, and it ends after exactly 100 iterations and 100
\* optimizer steps, never more, whatever losses were computed on the way.
C2_Terminates ==
  /\ <>(pc = "done")
  /\ [](pc = "done" => it = NumEpochs /\ hist.steps = NumEpochs)
  /\ [](it <= NumEpochs /\ hist.steps <= NumEpochs)

\* C2's case: the loop has run to its end, on data whose loss is never zero.
C2_Witness ==
  /\ pc = "done" /\ hist.steps = NumEpochs
  /\ loss # Some(0)

\* C8: a report is printed in iteration e exactly when e + 1 is a multiple
\* of 20: after k completed iterations there are k \div 20 reports, the
\* i-th labelled 20 * i and showing, to four decimals, the loss of that
\* iteration's forward pass, computed from the weight the iteration started
\* with (before its optimizer step); five reports once the loop has ended.
C8_Reports ==
  LET printed == IF pc = "report" THEN it - 1 ELSE Completed
  IN /\ Len(reports) = printed \div PrintEvery
     /\ \A i \in DOMAIN reports :
          /\ reports[i].label = PrintEvery * i
          /\ reports[i].text =
               Format4(Criterion(Forward(hist.thetas[PrintEvery * i], X), y))
     /\ pc = "done" =>
          [i \in DOMAIN reports |-> reports[i].label] = <<20, 40, 60, 80, 100>>

\* C8's case: all five reports are out, and the step of a reported
\* iteration changed the weight, so the loss before it and after it differ.
C8_Witness ==
  /\ pc = "done" /\ Len(reports) = 5
  /\ hist.thetas[PrintEvery] # hist.thetas[PrintEvery + 1]
  /\ reports[1].text # reports[2].text

\* C10: the gradient is reset before each back-propagation, so the gradient
\* the optimizer finds, and applies, in an iteration is the gradient of that
\* iteration's loss alone.
C10_FreshGradient ==
  /\ pc = "step" => pgrad = Some(LossGrad(Forward(theta, X), y, X))
  /\ (pc = "report" \/ (pc \in {"head", "done"} /\ it > 0)) =>
       hist.applied =
         Some(LossGrad(Forward(hist.thetas[Len(hist.thetas)], X), y, X))

\* C10's case: a later iteration has stepped with a gradient that is not
\* zero, after an earlier one left a gradient that is not zero either.
C10_Witness ==
  /\ pc = "report" /\ it = 3
  /\ hist.applied # Some(0)
  /\ hist.thetas[1] # hist.thetas[2]

(***************************************************************************)
(* The autograd cell (cell 5): z = x**2 + y**3, z.backward().              *)
(***************************************************************************)

\* Bound on the values the two tensors are drawn from.
MaxVal == 3

\* A leaf tensor created with requires_grad=True: no gradient yet.
Leaf(v) == [data |-> v, grad |-> None]

\* The graph autograd records for x**2 + y**3.
Graph ==
  [op |-> "add",
   args |-> << [op |-> "pow", args |-> <<[op |-> "leaf", name |-> "x"]>>, exp |-> 2],
               [op |-> "pow", args |-> <<[op |-> "leaf", name |-> "y"]>>, exp |-> 3] >>]

RECURSIVE Power(_, _)
Power(b, e) == IF e = 0 THEN 1 ELSE b * Power(b, e - 1)

\* The value of a graph node, given the leaves' data.
RECURSIVE Eval(_, _)
Eval(node, leaves) ==
  CASE node.op = "leaf" -> leaves[node.name]
    [] node.op = "pow" -> Power(Eval(node.args[1], leaves), node.exp)
    [] node.op = "add" -> Eval(node.args[1], leaves) + Eval(node.args[2], leaves)

\* PowBackward with the exponent not lowered: n * b^n in place of n * b^(n-1).
PowBackwardKeepsExponent(b, e, upstream) == upstream * e * Power(b, e)

\* The backward function of b ** e: the gradient passed on to b.
PowBackward(b, e, upstream) == upstream * e * Power(b, e - 1)

\* Reverse accumulation: the gradient that reaches leaf `name` when
\* `upstream` arrives at `node`.
RECURSIVE GradAt(_, _, _, _)
GradAt(node, name, upstream, leaves) ==
  CASE node.op = "leaf" -> IF node.name = name THEN upstream ELSE 0
    [] node.op = "pow" ->
         GradAt(node.args[1], name,
                PowBackward(Eval(node.args[1], leaves), node.exp, upstream), leaves)
    [] node.op = "add" ->
         GradAt(node.args[1], name, upstream, leaves)
           + GradAt(node.args[2], name, upstream, leaves)

\* A gradient arriving at a leaf is stored if there is none, added otherwise.
Accumulate(old, g) == IF old = None THEN Some(g) ELSE Some(Val(old) + g)

\* State after lines 248-249; the program's values are x = 2, y = 3.
AutogradInit ==
  /\ KernelIdle /\ DatasetIdle /\ IOIdle
  /\ it = 0 /\ theta = 0 /\ outputs = None /\ loss = None /\ pgrad = None
  /\ reports = <<>> /\ X = None
  /\ pc = "expr"
  /\ \E a, b \in -MaxVal..MaxVal : x = Leaf(a) /\ y = Leaf(b)
  /\ z = None
  /\ hist = [x0 |-> x.data, y0 |-> y.data, writes |-> [x |-> 0, y |-> 0]]

autoRest == <<kernelVars, dsVars, ioVars, it, theta, outputs, loss, pgrad, X>>

\* z = x**2 + y**3
ComputeZ ==
  /\ pc = "expr"
  /\ z' = [data |-> Eval(Graph, [x |-> x.data, y |-> y.data]), graph |-> Graph]
  /\ pc' = "backward"
  /\ UNCHANGED <<x, y, reports, hist, autoRest>>

\* z.backward()
BackwardZ ==
  /\ pc = "backward"
  /\ LET leaves == [x |-> x.data, y |-> y.data]
     IN /\ x' = [x EXCEPT !.grad = Accumulate(@, GradAt(z.graph, "x", 1, leaves))]
        /\ y' = [y EXCEPT !.grad = Accumulate(@, GradAt(z.graph, "y", 1, leaves))]
  /\ hist' = [hist EXCEPT !.writes = [x |-> @.x + 1, y |-> @.y + 1]]
  /\ pc' = "print"
  /\ UNCHANGED <<z, reports, autoRest>>

\* print(f"dz/dx: {x.grad}"); print(f"dz/dy: {y.grad}")
PrintGrads ==
  /\ pc = "print"
  /\ reports' = <<[label |-> "dz/dx", text |-> Val(x.grad)],
                  [label |-> "dz/dy", text |-> Val(y.grad)]>>
  /\ pc' = "done"
  /\ UNCHANGED <<x, y, z, hist, autoRest>>

AutogradNext ==
  \/ ComputeZ
  \/ BackwardZ
  \/ PrintGrads

AutogradSpec == AutogradInit /\ [][AutogradNext]_vars

\* C9: for z = x^2 + y^3, one back-propagation from z leaves x.grad = 2x and
\* y.grad = 3y^2, which is 4 and 27 (with z = 31) at x = 2, y = 3, and these
\* are what is printed; before it there is no gradient, each is written
\* exactly once, and the values of x and y stay what they were.
C9_Gradients ==
  /\ x.data = hist.x0 /\ y.data = hist.y0
  /\ pc \in {"expr", "backward"} =>
       x.grad = None /\ y.grad = None /\ hist.writes = [x |-> 0, y |-> 0]
  /\ pc \in {"print", "done"} =>
       /\ x.grad = Some(2 * x.data)
       /\ y.grad = Some(3 * y.data * y.data)
       /\ hist.writes = [x |-> 1, y |-> 1]
       /\ (x.data = 2 /\ y.data = 3) =>
            z.data = 31 /\ x.grad = Some(4) /\ y.grad = Some(27)
  /\ pc = "done" =>
       reports = <<[label |-> "dz/dx", text |-> 2 * x.data],
                   [label |-> "dz/dy", text |-> 3 * y.data * y.data]>>

\* C9's case: the program's own values, after the back-propagation.
C9_Witness ==
  /\ pc = "done" /\ x.data = 2 /\ y.data = 3
  /\ x.grad = Some(4) /\ y.grad = Some(27)

(***************************************************************************)
(* The dataset cell (cell 8): CustomDataset and the DataLoader.            *)
(***************************************************************************)

BatchSize == 32

\* Indexing the first dimension of a tensor of n rows: 0 .. n-1 from the
\* front, -n .. -1 from the back, IndexError (None) otherwise.
PyIndex(s, idx) ==
  IF 0 <= idx /\ idx < Len(s) THEN Some(s[idx + 1])
  ELSE IF -Len(s) <= idx /\ idx < 0 THEN Some(s[Len(s) + idx + 1])
  ELSE None

\* CustomDataset.__init__
NewCustomDataset(Xs, ys) == [X |-> Xs, y |-> ys]

\* CustomDataset.__len__
DatasetLen(self) == Len(self.X)

\* __getitem__ with the target taken one index early.
DatasetGetItemShifted(self, idx) ==
  LET a == PyIndex(self.X, idx)
      b == PyIndex(self.y, idx - 1)
  IN IF a = None \/ b = None THEN [err |-> "IndexError", val |-> None]
     ELSE [err |-> "none", val |-> <<Val(a), Val(b)>>]

\* CustomDataset.__getitem__
DatasetGetItem(self, idx) ==
  LET a == PyIndex(self.X, idx)
      b == PyIndex(self.y, idx)
  IN IF a = None \/ b = None THEN [err |-> "IndexError", val |-> None]
     ELSE [err |-> "none", val |-> <<Val(a), Val(b)>>]

\* State before the cell runs: X and y as the training cell bound them.
DataInit ==
  /\ KernelIdle /\ LoopIdle /\ AutoIdle /\ DatasetIdle /\ IOIdle
  /\ \E n \in 1..MaxSamples : X \in Inputs(n)
  /\ y = TargetOf(X)
  /\ hist = [X0 |-> X, y0 |-> y]

dataRest == <<kernelVars, autoVars, ioVars, pc, it, theta, outputs, loss, pgrad, reports>>

\* dataset = CustomDataset(X, y); dataloader = DataLoader(dataset, ...)
MakeDataset ==
  /\ dataset = None
  /\ dataset' = Some(NewCustomDataset(X, y))
  /\ dataloader' = Some([dataset |-> NewCustomDataset(X, y),
                         batch_size |-> BatchSize, shuffle |-> TRUE])
  /\ UNCHANGED <<X, y, item, hist, dataRest>>

\* len(dataset)
CallLen ==
  /\ dataset # None
  /\ item' = Some([op |-> "len", idx |-> 0, err |-> "none",
                   val |-> DatasetLen(Val(dataset))])
  /\ UNCHANGED <<X, y, dataset, dataloader, hist, dataRest>>

\* dataset[idx]
CallGetItem ==
  /\ dataset # None
  /\ \E idx \in -(MaxSamples + 1)..(MaxSamples + 1) :
       LET r == DatasetGetItem(Val(dataset), idx)
       IN item' = Some([op |-> "getitem", idx |-> idx, err |-> r.err, val |-> r.val])
  /\ UNCHANGED <<X, y, dataset, dataloader, hist, dataRest>>

DataNext ==
  \/ MakeDataset
  \/ CallLen
  \/ CallGetItem

DataSpec == DataInit /\ [][DataNext]_vars

\* C7: the dataset's length is the length of X; for every index i with
\* 0 <= i < length, item i is the pair (X[i], y[i]) (sequences here count
\* from 1); construction and access leave X and y as they were.
C7_Dataset ==
  /\ X = hist.X0 /\ y = hist.y0
  /\ item # None =>
       LET r == Val(item)
       IN /\ r.op = "len" => r.val = Len(X)
          /\ (r.op = "getitem" /\ 0 <= r.idx /\ r.idx < Len(X)) =>
               r.err = "none" /\ r.val = <<X[r.idx + 1], y[r.idx + 1]>>

\* C7's case: the second item of a dataset whose two inputs, and so whose
\* two targets, differ.
C7_Witness ==
  /\ item # None /\ Val(item).op = "getitem" /\ Val(item).idx = 1
  /\ Len(X) = 2 /\ y[1] # y[2]
  /\ Val(item).val = <<X[2], y[2]>>

(***************************************************************************)
(* Device selection (cell 4), save and load (cell 9), evaluation (cell 10).*)
(* A cell's statements run in order; the first exception a call raises    *)
(* ends the cell and is what the cell reports, unless the cell's own code  *)
(* catches it.  The environment decides which devices exist, whether the   *)
(* working directory can be written and whether 'model.pth' is still there *)
(* when it is read.                                                        *)
(***************************************************************************)

HiddenFeatures == 5
OutFeatures == 1

\* Bounds: the largest parameter value, and how far the width of X may be
\* from the width the network expects.
MaxParam == 1
MaxSkew == 1

\* SimpleNN's submodules in registration order, and each one's parameters.
Children == <<"layer1", "layer2", "relu">>
ParamNames(child) == IF child = "relu" THEN <<>> ELSE <<"weight", "bias">>

\* The in and out widths of the two linear layers, in forward's order.
Layers == << [in |-> InFeatures, out |-> HiddenFeatures],
             [in |-> HiddenFeatures, out |-> OutFeatures] >>

\* The keys of SimpleNN's state_dict, in order: "<child>.<parameter>".
RECURSIVE KeysFrom(_)
KeysFrom(children) ==
  IF children = <<>> THEN <<>>
  ELSE [i \in DOMAIN ParamNames(Head(children)) |->
          <<Head(children), ParamNames(Head(children))[i]>>]
       \o KeysFrom(Tail(children))

StateDictKeys == KeysFrom(Children)
KeySet == Range(StateDictKeys)

\* model.state_dict(): the ordered (key, tensor) entries.
StateDict(m) == [i \in DOMAIN StateDictKeys |-> <<StateDictKeys[i], m[StateDictKeys[i]]>>]

\* torch.save writes the entries to the file; torch.load reads them back
\* into a mapping from key to tensor.
Serialize(entries) == [kind |-> "state_dict", entries |-> entries]
Deserialize(file) ==
  [k \in {e[1] : e \in Range(file.entries)} |->
     (CHOOSE e \in Range(file.entries) : e[1] = k)[2]]

\* load_state_dict that copies the weights and leaves the biases as they were.
LoadStateDictWeightsOnly(target, sd) ==
  [err |-> "none", missing |-> {}, unexpected |-> {},
   params |-> [k \in KeySet |-> IF k[2] = "weight" THEN sd[k] ELSE target[k]]]

\* loaded_model.load_state_dict(sd), strict: keys the module lacks or the
\* dictionary lacks raise RuntimeError; otherwise every parameter is copied.
LoadStateDict(target, sd) ==
  LET missing == KeySet \ DOMAIN sd
      unexpected == DOMAIN sd \ KeySet
  IN IF missing # {} \/ unexpected # {}
     THEN [err |-> "RuntimeError", missing |-> missing,
           unexpected |-> unexpected, params |-> target]
     ELSE [err |-> "none", missing |-> {}, unexpected |-> {},
           params |-> [k \in KeySet |-> sd[k]]]

\* The shape model(X) returns, or None when a layer's input width does not
\* match (the framework raises RuntimeError).
RECURSIVE ForwardShape(_, _)
ForwardShape(shape, layers) ==
  IF layers = <<>> THEN Some(shape)
  ELSE IF shape[2] # Head(layers).in THEN None
  ELSE ForwardShape(<<shape[1], Head(layers).out>>, Tail(layers))

ShapeOf(Xs) == <<Len(Xs), Len(Xs[1])>>

\* Whether tensors can be moved to device d.
Available(d, env) ==
  \/ d = "cpu"
  \/ d = "mps" /\ env.mps
  \/ d = "cuda" /\ env.cuda

\* How a cell ended: the exception it reported, if any.
Ended(c, e, env, res) == [cell |-> c, err |-> e, env |-> env, result |-> res]

NoEnv == [mps |-> FALSE, cuda |-> FALSE, writable |-> TRUE, gone |-> FALSE]

\* State before the three cells run: a constructed model, and X.
IOInit ==
  /\ KernelIdle /\ LoopIdle /\ AutoIdle /\ DatasetIdle
  /\ y = None
  /\ model \in [KeySet -> 0..MaxParam]
  /\ \E w \in (InFeatures - MaxSkew)..(InFeatures + MaxSkew) :
       X = <<[j \in 1..w |-> 0]>>
  /\ device = None /\ fs = None /\ loaded_model = None
  /\ training = TRUE /\ test_output = None /\ out = None
  /\ hist = [model0 |-> model]

ioRest == <<kernelVars, autoVars, dsVars, pc, it, theta, outputs, loss, pgrad,
            reports, y, X, hist>>

\* Cell 4: pick mps, else cuda, else the cpu; move a tensor to the device.
SelectDevice ==
  \E mps, cuda \in BOOLEAN :
    LET env == [NoEnv EXCEPT !.mps = mps, !.cuda = cuda]
        d == IF mps THEN "mps" ELSE IF cuda THEN "cuda" ELSE "cpu"
    IN /\ device' = Some(d)
       /\ out' = Some(Ended(4, IF Available(d, env) THEN "none" ELSE "RuntimeError",
                            env, d))
       /\ UNCHANGED <<model, fs, loaded_model, training, test_output, ioRest>>

\* The save/load cell with the load wrapped in a handler that keeps the
\* fresh model when the file cannot be read.
SaveLoadCatching ==
  \E writable, gone \in BOOLEAN, v \in 0..MaxParam :
    LET env == [NoEnv EXCEPT !.writable = writable, !.gone = gone]
        fresh == [k \in KeySet |-> v]
        file == Serialize(StateDict(model))
    IN /\ UNCHANGED <<model, device, training, test_output, ioRest>>
       /\ IF ~writable
          THEN /\ out' = Some(Ended(9, "PermissionError", env, None))
               /\ UNCHANGED <<fs, loaded_model>>
          ELSE IF gone
          THEN /\ fs' = None
               /\ loaded_model' = Some(fresh)
               /\ out' = Some(Ended(9, "none", env, None))
          ELSE LET r == LoadStateDict(fresh, Deserialize(file))
               IN /\ fs' = Some(file)
                  /\ loaded_model' = Some(r.params)
                  /\ out' = Some(Ended(9, r.err, env,
                                       [missing |-> r.missing,
                                        unexpected |-> r.unexpected]))

\* Cell 9: save the model's parameters, construct a fresh model, load the
\* file into it.
SaveLoad ==
  \E writable, gone \in BOOLEAN, v \in 0..MaxParam :
    LET env == [NoEnv EXCEPT !.writable = writable, !.gone = gone]
        fresh == [k \in KeySet |-> v]
        file == Serialize(StateDict(model))
    IN /\ UNCHANGED <<model, device, training, test_output, ioRest>>
       /\ IF ~writable
          THEN \* torch.save raises; nothing after it runs
               /\ out' = Some(Ended(9, "PermissionError", env, None))
               /\ UNCHANGED <<fs, loaded_model>>
          ELSE IF gone
          THEN \* the file was written and removed; torch.load raises
               /\ fs' = None
               /\ loaded_model' = Some(fresh)
               /\ out' = Some(Ended(9, "FileNotFoundError", env, None))
          ELSE LET r == LoadStateDict(fresh, Deserialize(file))
               IN /\ fs' = Some(file)
                  /\ loaded_model' = Some(r.params)
                  /\ out' = Some(Ended(9, r.err, env,
                                       [missing |-> r.missing,
                                        unexpected |-> r.unexpected]))

\* Cell 10: model.train(); model.eval(); test_output = model(X) under no_grad.
Evaluate ==
  LET shape == ForwardShape(ShapeOf(X), Layers)
  IN /\ training' = FALSE
     /\ test_output' = IF shape = None THEN test_output ELSE shape
     /\ out' = Some(Ended(10, IF shape = None THEN "RuntimeError" ELSE "none",
                          NoEnv, shape))
     /\ UNCHANGED <<model, device, fs, loaded_model, ioRest>>

IONext ==
  \/ SelectDevice
  \/ SaveLoad
  \/ Evaluate

IOSpec == IOInit /\ [][IONext]_vars

\* The failures the environment put in a cell's way.
ShapeMismatch == out # None /\ Val(out).cell = 10 /\ ShapeOf(X)[2] # InFeatures
FileMissing ==
  out # None /\ Val(out).cell = 9 /\ Val(out).env.writable /\ Val(out).env.gone
NoAccelerator ==
  out # None /\ Val(out).cell = 4 /\ ~Val(out).env.mps /\ ~Val(out).env.cuda

\* C5 as stated: each of the three failures ends its cell with the
\* framework's error.
C5_AllFailuresSurface ==
  /\ ShapeMismatch => Val(out).err = "RuntimeError"
  /\ FileMissing => Val(out).err = "FileNotFoundError"
  /\ NoAccelerator => Val(out).err # "none"

\* C5, amended: a shape mismatch and a missing file end their cell with the
\* framework's error and without a result of the call that failed; an
\* unavailable device raises nothing: the device-selection cell
\* tests availability and falls back, to cuda and then to the cpu, so it
\* always ends without an error on a device that exists.
C5_FailuresSurfaceExceptDevice ==
  /\ ShapeMismatch => Val(out).err = "RuntimeError" /\ test_output = None
  /\ FileMissing => Val(out).err = "FileNotFoundError" /\ Val(out).result = None
  /\ (out # None /\ Val(out).cell = 4) =>
       /\ Val(out).err = "none"
       /\ Available(Val(device), Val(out).env)
       /\ NoAccelerator => device = Some("cpu")

\* C5's case: the file was missing when the save/load cell read it.
C5_Witness == FileMissing /\ Val(out).err = "FileNotFoundError"

\* C6: when the save/load cell ends without an error, every key matched
\* (none missing, none unexpected), loaded_model's parameters equal the
\* saved model's, the file holds them, and the saved model is as it was.
C6_RoundTrip ==
  (out # None /\ Val(out).cell = 9 /\ Val(out).err = "none") =>
    /\ Val(out).result = [missing |-> {}, unexpected |-> {}]
    /\ loaded_model = Some(model)
    /\ Deserialize(Val(fs)) = model
    /\ model = hist.model0

\* C6's case: a load that changed the fresh model, into a model whose
\* parameters are not all alike.
C6_Witness ==
  /\ out # None /\ Val(out).cell = 9 /\ Val(out).err = "none"
  /\ loaded_model = Some(model)
  /\ model[<<"layer1", "weight">>] # model[<<"layer1", "bias">>]

Init ==
  /\ KernelIdle /\ LoopIdle /\ AutoIdle /\ DatasetIdle /\ IOIdle
  /\ X = None /\ y = None /\ hist = None

Next == \E c \in Cells : RunCell(c)

Spec == Init /\ [][Next]_vars

====
